---- MODULE Spec2Model ----
(***************************************************************************)
(* Model of the Alerta Telegram plugin (alerta_telegram.py).               *)
(*                                                                         *)
(* The plugin is a set of host hooks (pre_receive, post_receive,           *)
(* status_change) over a configuration read once at import time and a bot  *)
(* client.  A state records the configuration, the last hook invocation    *)
(* (its inputs, how it ended, the sendMessage calls it made) and counters  *)
(* over the whole run.                                                      *)
(***************************************************************************)
EXTENDS Naturals, Sequences, FiniteSets

VARIABLES
    cfg,      \* module-level configuration (lines 26-48), fixed after import
    last,     \* the last hook invocation: hook, alert, step outcomes, result
    calls,    \* bot.sendMessage calls made by the last invocation, in order
    nHooks,   \* hook invocations so far
    nCalls,   \* bot.sendMessage calls so far
    nPassed,  \* post_receive invocations whose alert passed the filter so far
    nRaised   \* post_receive invocations that the render ended with an exception

vars == <<cfg, last, calls, nHooks, nCalls, nPassed, nRaised>>

\* ------------------------------------------------------------------ bounds

\* Number of hook invocations explored in one run.
MaxHooks == 2

\* ------------------------------------------------------------ value domains

\* Python's None, where the value it stands beside is a string.
None == "None"

Severities == {"critical", "warning", "indeterminate"}
Statuses == {"open", "closed"}
Customers == {None, "acme"}
AlertIds == {"a1", "b2"}

\* The fields of an alert that post_receive reads.
Alerts ==
    [id : AlertIds, status : Statuses, severity : Severities,
     previous_severity : Severities, customer : Customers, repeat : BOOLEAN]

\* The alerts handed to the hooks that read no field of the alert.
PassThroughAlerts ==
    {a \in Alerts : a.id = "a1" /\ a.customer = None /\ ~a.repeat}

\* A severity list option is None, '' or a list; None, '' and [] are all falsy
\* and the code only tests truthiness, so every falsy value is the empty set.
FilterChoices == {{}, {"critical", "indeterminate"}}
SoundChoices == {{}, {"critical"}}

\* TELEGRAM_WEBHOOK_URL: None when unset.
WebhookChoices == {None, "https://hook.example/tg"}

\* TELEGRAM_CHAT_ID_PER_CUSTOMER: app.config.get(...) gives None when the option
\* is not configured, a dict otherwise.
ChatMapChoices ==
    {[isNone |-> TRUE, dict |-> <<>>],
     [isNone |-> FALSE, dict |-> [c \in {"acme"} |-> "chat-acme"]]}

\* What template.render() can do: return the text, raise jinja2's
\* UndefinedError, or raise any other exception (a TypeError in an expression).
RenderOutcomes == {"ok", "UndefinedError", "TypeError"}

\* What bot.sendMessage() can do: return the response, raise telepot's
\* TelegramError, or raise any other exception (a network failure).
ApiOutcomes == {"ok", "TelegramError", "Exception"}

\* A step that the invocation never reached.
NotReached == "not reached"

\* The text a successful render produces.
RenderedText == "rendered"

\* ------------------------------------------------------------ configuration

TELEGRAM_CHAT_ID == "chat-default"

TELEGRAM_FILTER_NOTIFICATION_SEVERITY == cfg.filter

TELEGRAM_SOUND_NOTIFICATION_SEVERITY == cfg.sound

TELEGRAM_WEBHOOK_URL == cfg.webhook

TELEGRAM_CHAT_ID_PER_CUSTOMER == cfg.chat_map

\* Python truthiness of a list or set option.
Truthy(s) == s # {}

\* -------------------------------------------------------------- post_receive

\* Variant of RepeatFiltered: the repeat flag is not consulted.
RepeatFilteredIgnored(alert) == FALSE

\* if alert.repeat: return
RepeatFiltered(alert) == alert.repeat

\* Variant of ClosedIndeterminateFiltered: the current severity is compared
\* instead of the previous one.
ClosedIndeterminateFilteredCurrent(alert) ==
    alert.status = "closed" /\ alert.severity = "indeterminate"

\* if alert.status == "closed" and alert.previous_severity == "indeterminate": return
ClosedIndeterminateFiltered(alert) ==
    alert.status = "closed" /\ alert.previous_severity = "indeterminate"

\* send_alert as lines 98-114 compute it
send_alert(alert) ==
    IF alert.status = "closed"
    THEN alert.previous_severity \in TELEGRAM_FILTER_NOTIFICATION_SEVERITY
    ELSE \/ alert.previous_severity \in TELEGRAM_FILTER_NOTIFICATION_SEVERITY
         \/ alert.severity \in TELEGRAM_FILTER_NOTIFICATION_SEVERITY

\* if TELEGRAM_FILTER_NOTIFICATION_SEVERITY: ... if not send_alert: return
SeverityFiltered(alert) ==
    Truthy(TELEGRAM_FILTER_NOTIFICATION_SEVERITY) /\ ~send_alert(alert)

\* The three early returns of post_receive, in the order of the code.
Filtered(alert) ==
    \/ RepeatFiltered(alert)
    \/ ClosedIndeterminateFiltered(alert)
    \/ SeverityFiltered(alert)

\* The text of the except UndefinedError branch.
FallbackText ==
    "Something bad has happened but also we can't handle your telegram template message."

\* Variant of RenderStep: UndefinedError is not caught.
RenderStepUncaught(r) ==
    IF r = "ok" THEN [raised |-> FALSE, text |-> RenderedText]
    ELSE [raised |-> TRUE, text |-> None]

\* try: text = self.template.render(alert.__dict__) except UndefinedError: ...
\* [raised, text]: an exception other than UndefinedError is not caught.
RenderStep(r) ==
    IF r = "ok" THEN [raised |-> FALSE, text |-> RenderedText]
    ELSE IF r = "UndefinedError" THEN [raised |-> FALSE, text |-> FallbackText]
    ELSE [raised |-> TRUE, text |-> None]

\* The reply_markup of a call made without keyboard (keyboard = None).
NoKeyboard == [inline_keyboard |-> <<>>, isNone |-> TRUE]

\* Variant of Keyboard: the callback payloads carry no alert id.
KeyboardNoId(alert) ==
    IF TELEGRAM_WEBHOOK_URL # None
    THEN [inline_keyboard |->
            << << [text |-> "ack", callback_data |-> "/ack "],
                  [text |-> "close", callback_data |-> "/close "],
                  [text |-> "blackout", callback_data |-> "/blackout "] >> >>,
          isNone |-> FALSE]
    ELSE NoKeyboard

\* if TELEGRAM_WEBHOOK_URL: keyboard = {...} else: keyboard = None
Keyboard(alert) ==
    IF TELEGRAM_WEBHOOK_URL # None
    THEN [inline_keyboard |->
            << << [text |-> "ack", callback_data |-> "/ack " \o alert.id],
                  [text |-> "close", callback_data |-> "/close " \o alert.id],
                  [text |-> "blackout", callback_data |-> "/blackout " \o alert.id] >> >>,
          isNone |-> FALSE]
    ELSE NoKeyboard

\* Variant of DisableNotification: silent when no sound severity is configured.
DisableNotificationSilentDefault(alert) ==
    IF Truthy(TELEGRAM_SOUND_NOTIFICATION_SEVERITY)
    THEN ~(alert.severity \in TELEGRAM_SOUND_NOTIFICATION_SEVERITY)
    ELSE TRUE

\* disable_notification as lines 145-150 compute it
DisableNotification(alert) ==
    IF Truthy(TELEGRAM_SOUND_NOTIFICATION_SEVERITY)
    THEN ~(alert.severity \in TELEGRAM_SOUND_NOTIFICATION_SEVERITY)
    ELSE FALSE

\* alert.customer in TELEGRAM_CHAT_ID_PER_CUSTOMER raises TypeError when the
\* option is None ("argument of type 'NoneType' is not iterable").
ChatLookupRaises == TELEGRAM_CHAT_ID_PER_CUSTOMER.isNone

\* tg_chat_id of lines 155-158, when the lookup does not raise
ChatId(alert) ==
    IF alert.customer \in DOMAIN TELEGRAM_CHAT_ID_PER_CUSTOMER.dict
    THEN TELEGRAM_CHAT_ID_PER_CUSTOMER.dict[alert.customer]
    ELSE TELEGRAM_CHAT_ID

\* The arguments of self.bot.sendMessage(...)
SendMessageCall(alert, text) ==
    [chat_id |-> ChatId(alert),
     text |-> text,
     parse_mode |-> "Markdown",
     disable_notification |-> DisableNotification(alert),
     reply_markup |-> Keyboard(alert)]

\* Variant of SendErrorMapping: only TelegramError is caught.
SendErrorMappingTelegramOnly(e) ==
    IF e = "ok" THEN "return"
    ELSE IF e = "TelegramError" THEN "RuntimeError"
    ELSE e

\* The two except clauses around the send: what post_receive raises when the
\* try block raised an exception of type e ("ok": nothing was raised).
SendErrorMapping(e) ==
    IF e = "ok" THEN "return" ELSE "RuntimeError"

\* The try block of lines 154-170: [outcome, calls].
SendStep(alert, text, api) ==
    IF ChatLookupRaises
    THEN [outcome |-> SendErrorMapping("TypeError"), calls |-> <<>>]
    ELSE [outcome |-> SendErrorMapping(api),
          calls |-> <<SendMessageCall(alert, text)>>]

\* post_receive as a whole: how it ends and the calls it makes, given the
\* outcomes r and api of the two external calls it may reach.
post_receive(alert, r, api) ==
    IF Filtered(alert)
    THEN [outcome |-> "return", calls |-> <<>>]
    ELSE IF RenderStep(r).raised
    THEN [outcome |-> r, calls |-> <<>>]
    ELSE SendStep(alert, RenderStep(r).text, api)

\* The outcomes of render the invocation can observe: none when it returned
\* before the render.
RenderInputs(alert) ==
    IF Filtered(alert) THEN {NotReached} ELSE RenderOutcomes

\* The outcomes of sendMessage the invocation can observe: none when
\* sendMessage is not called.
ApiInputs(alert, r) ==
    IF Filtered(alert) \/ RenderStep(r).raised \/ ChatLookupRaises
    THEN {NotReached}
    ELSE ApiOutcomes

\* ------------------------------------------------------------------ actions

NoAlert ==
    [id |-> None, status |-> None, severity |-> None,
     previous_severity |-> None, customer |-> None, repeat |-> FALSE]

Init ==
    /\ cfg \in [filter : FilterChoices, sound : SoundChoices,
                webhook : WebhookChoices, chat_map : ChatMapChoices]
    /\ last = [hook |-> "init", alert |-> NoAlert, render |-> NotReached,
               api |-> NotReached, outcome |-> "return"]
    /\ calls = <<>>
    /\ nHooks = 0
    /\ nCalls = 0
    /\ nPassed = 0
    /\ nRaised = 0

\* def pre_receive(self, alert): return alert
PreReceive(alert) ==
    /\ nHooks < MaxHooks
    /\ last' = [hook |-> "pre_receive", alert |-> alert, render |-> NotReached,
                api |-> NotReached, outcome |-> "return"]
    /\ calls' = <<>>
    /\ nHooks' = nHooks + 1
    /\ UNCHANGED <<cfg, nCalls, nPassed, nRaised>>

\* def post_receive(self, alert, **kwargs)
PostReceive(alert, r, api) ==
    /\ nHooks < MaxHooks
    /\ \E res \in {post_receive(alert, r, api)} :
        /\ last' = [hook |-> "post_receive", alert |-> alert, render |-> r,
                    api |-> api, outcome |-> res.outcome]
        /\ calls' = res.calls
        /\ nCalls' = nCalls + Len(res.calls)
    /\ nPassed' = IF Filtered(alert) THEN nPassed ELSE nPassed + 1
    /\ nRaised' = IF ~Filtered(alert) /\ RenderStep(r).raised
                  THEN nRaised + 1 ELSE nRaised
    /\ nHooks' = nHooks + 1
    /\ UNCHANGED cfg

\* def status_change(self, alert, status, summary, **kwargs): return
StatusChange(alert, status) ==
    /\ nHooks < MaxHooks
    /\ last' = [hook |-> "status_change", alert |-> alert, render |-> NotReached,
                api |-> NotReached, outcome |-> "return"]
    /\ calls' = <<>>
    /\ nHooks' = nHooks + 1
    /\ UNCHANGED <<cfg, nCalls, nPassed, nRaised>>

Next ==
    \/ \E alert \in PassThroughAlerts : PreReceive(alert)
    \/ \E alert \in Alerts : \E r \in RenderInputs(alert) :
         \E api \in ApiInputs(alert, r) : PostReceive(alert, r, api)
    \/ \E alert \in PassThroughAlerts : StatusChange(alert, "ack")

Spec == Init /\ [][Next]_vars

TypeOK ==
    /\ nHooks \in 0..MaxHooks
    /\ nCalls \in 0..MaxHooks
    /\ nPassed \in 0..MaxHooks
    /\ nRaised \in 0..MaxHooks
    /\ Len(calls) <= 1

\* ------------------------------------------------------------------- claims

\* The last hook invocation was post_receive.
IsPost == last.hook = "post_receive"

\* The alert is neither a repeat nor (closed with previous severity
\* indeterminate): the first two rules of the filter let it through.
PastFirstTwoRules(a) ==
    ~a.repeat /\ ~(a.status = "closed" /\ a.previous_severity = "indeterminate")

\* The decision the severity rule is specified to take under filter set f.
SeverityRuleSends(a, f) ==
    \/ a.status = "closed" /\ a.previous_severity \in f
    \/ a.status # "closed" /\ (a.previous_severity \in f \/ a.severity \in f)

\* The notification filter as specified (rules 1-4), under filter set f.
ShouldNotify(a, f) ==
    PastFirstTwoRules(a) /\ (f = {} \/ SeverityRuleSends(a, f))

\* The render of the last invocation, if reached, raised nothing that
\* post_receive lets through.
RenderCompleted == last.render # "TypeError"

\* C1: with a non-empty filter set, an event past the first two rules is sent
\* (one sendMessage call) exactly when the severity rule says so.  Stated for
\* the invocations whose render completes.
C1_FilterDecidesSend ==
    (IsPost /\ cfg.filter # {} /\ PastFirstTwoRules(last.alert) /\ RenderCompleted)
        => (Len(calls) = 1 <=> SeverityRuleSends(last.alert, cfg.filter))

\* C2: a repeat event is suppressed: no sendMessage call and a normal return,
\* whatever the other fields and the configuration.
C2_RepeatSuppressed ==
    (IsPost /\ last.alert.repeat) => (calls = <<>> /\ last.outcome = "return")

\* C2 witness: a repeat event that every later rule would let through.
C2_Witness ==
    /\ IsPost /\ last.alert.repeat
    /\ last.alert.status = "open" /\ last.alert.severity = "critical"
    /\ cfg.filter = {} /\ ~cfg.chat_map.isNone
    /\ calls = <<>>

\* C3: a closed event whose previous severity is indeterminate is suppressed,
\* also when "indeterminate" is in the filter set.
C3_ClosedIndeterminateSuppressed ==
    (IsPost /\ last.alert.status = "closed"
            /\ last.alert.previous_severity = "indeterminate")
        => calls = <<>>

\* C3 witness: such an event, not a repeat, with "indeterminate" in the filter.
C3_Witness ==
    /\ IsPost /\ ~last.alert.repeat
    /\ last.alert.status = "closed"
    /\ last.alert.previous_severity = "indeterminate"
    /\ last.alert.severity = "critical"
    /\ "indeterminate" \in cfg.filter /\ ~cfg.chat_map.isNone
    /\ calls = <<>> /\ last.outcome = "return"

\* C4: with an empty or unset filter set, every event past the first two rules
\* reaches the sendMessage call.  Stated for the invocations whose render
\* completes.
C4_EmptyFilterSendsAll ==
    (IsPost /\ cfg.filter = {} /\ PastFirstTwoRules(last.alert) /\ RenderCompleted)
        => Len(calls) = 1

\* C5: the number of sendMessage calls equals the number of post_receive
\* invocations whose event passed the filter; an invocation makes at most one
\* call, and pre_receive and status_change make none.  Stated for the runs in
\* which every render completes.
C5_OneCallPerPassedEvent ==
    nRaised = 0
        => /\ nCalls = nPassed
           /\ Len(calls) <= 1
           /\ (last.hook \in {"pre_receive", "status_change"} => calls = <<>>)

\* The channel the destination rule is specified to choose.
SpecifiedChannel(a) ==
    IF ~cfg.chat_map.isNone /\ a.customer \in DOMAIN cfg.chat_map.dict
    THEN cfg.chat_map.dict[a.customer]
    ELSE TELEGRAM_CHAT_ID

\* C6: a sent event goes to the customer's channel when the customer is a key
\* of the per-customer map and to the default channel otherwise, also when no
\* per-customer map is configured.
C6_DestinationResolved ==
    (IsPost /\ ShouldNotify(last.alert, cfg.filter) /\ RenderCompleted)
        => /\ Len(calls) = 1
           /\ calls[1].chat_id = SpecifiedChannel(last.alert)

\* C7 as stated: delivery is audible exactly when the sound set is non-empty
\* and holds the current severity; silent whenever the set is unset or empty.
C7_AudibleOnlyWhenListed ==
    \A i \in 1..Len(calls) :
        (~calls[i].disable_notification)
            <=> (cfg.sound # {} /\ last.alert.severity \in cfg.sound)

\* C7 amended: delivery is audible exactly when the sound set is unset or empty,
\* or holds the current severity; silent only when the set is non-empty and
\* does not hold the current severity.
C7_AudibleUnlessUnlisted ==
    \A i \in 1..Len(calls) :
        (~calls[i].disable_notification)
            <=> (cfg.sound = {} \/ last.alert.severity \in cfg.sound)

\* C7 witness: a call made with no sound severity configured, audible.
C7_Witness ==
    /\ IsPost /\ Len(calls) = 1
    /\ cfg.sound = {}
    /\ ~calls[1].disable_notification

\* C8: an error raised by sendMessage (TelegramError or any other exception)
\* makes post_receive raise RuntimeError; from the send step post_receive
\* returns normally only after a successful send and raises nothing else.
C8_SendErrorsUniform ==
    /\ (IsPost /\ last.api \in {"TelegramError", "Exception"})
           => last.outcome = "RuntimeError"
    /\ (IsPost /\ last.api # NotReached)
           => /\ last.outcome \in {"return", "RuntimeError"}
              /\ (last.outcome = "return" <=> last.api = "ok")

\* C8 witness: sendMessage raised an exception that is not a TelegramError.
C8_Witness ==
    /\ IsPost /\ Len(calls) = 1
    /\ last.api = "Exception"
    /\ last.outcome = "RuntimeError"

\* The fallback message as the specification words it.
SpecifiedFallbackText ==
    "Something bad has happened but we can't render your message template."

SpecifiedControls(id) ==
    << [text |-> "ack", callback_data |-> "/ack " \o id],
       [text |-> "close", callback_data |-> "/close " \o id],
       [text |-> "blackout", callback_data |-> "/blackout " \o id] >>

\* C10: a sendMessage call carries controls exactly when a webhook URL is
\* configured, and then exactly the three controls ack, close, blackout with
\* payloads built from the identifier of the event being sent.
C10_ControlsIffWebhook ==
    \A i \in 1..Len(calls) :
        IF cfg.webhook # None
        THEN /\ ~calls[i].reply_markup.isNone
             /\ calls[i].reply_markup.inline_keyboard
                    = <<SpecifiedControls(last.alert.id)>>
        ELSE calls[i].reply_markup = NoKeyboard

\* C10 witness: a call with controls for the second alert identifier.
C10_Witness ==
    /\ IsPost /\ Len(calls) = 1
    /\ cfg.webhook # None
    /\ last.alert.id = "b2"
    /\ calls[1].reply_markup.inline_keyboard[1][3].callback_data = "/blackout b2"

====
